---- MODULE Spec2Model ----
(***************************************************************************)
(* Model of the SQL script runner (src/s1.py): one run of main(), i.e.     *)
(* module load, SQLScriptRunner.run_tests over the discovered scripts      *)
(* (run_sql_script, compare_results, save_failed_result, generate_report)  *)
(* and the process exit status.                                            *)
(*                                                                         *)
(* The file system and the external sqlcmd client are the environment:     *)
(* the directories' contents are fixed in Init, what the client does for   *)
(* one invocation and whether a write succeeds are inputs of the actions.  *)
(* Wall-clock fields (timestamp, execution_time) and logging carry no      *)
(* control flow and are left out.                                          *)
(*                                                                         *)
(* A file is Absent (<<>>) or <<content>>.  A text file's content is a     *)
(* sequence of raw lines (as iterating the file yields them, without the   *)
(* line end), a line a sequence of characters, a character its code point  *)
(* (97 is "a", 98 is "b", 32 the space, 9 the tab, 12 the form feed).      *)
(***************************************************************************)
EXTENDS Integers, Sequences, FiniteSets, TLC

\* ------------------------------------------------------------------ bounds

\* Scripts that the scripts directory may hold.
MaxScripts == 2
\* Raw lines per file given to compare_results on its own.
MaxLines == 3
\* Outcomes given to generate_report on its own.
MaxOutcomes == 3

ScriptIds == 1..MaxScripts

\* ------------------------------------------------------------- text files

Absent == <<>>
File(content) == <<content>>

\* The characters str.strip() removes: those for which str.isspace() holds.
Whitespace ==
    (9..13) \cup (28..32) \cup {133, 160, 5760} \cup (8192..8202)
    \cup {8232, 8233, 8239, 8287, 12288}

\* Raw lines the files are built from: "a", "b", "a" padded with a tab and a
\* space, a line of one space, a line of one form feed.
RawLines == { <<97>>, <<98>>, <<9, 97, 32>>, <<32>>, <<12>> }

RECURSIVE SeqsUpTo(_, _)
SeqsUpTo(S, n) ==
    IF n = 0 THEN { <<>> }
    ELSE LET shorter == SeqsUpTo(S, n - 1)
         IN shorter \cup { Append(q, x) : q \in shorter, x \in S }

\* Contents of the files the run's directories hold.
Baseline == << <<97>>, <<98>> >>
SameAfterStrip == << <<9, 97, 32>>, <<12>>, <<98>> >>
Shorter == << <<97>> >>

\* ------------------------------------------------- compare_results (160-184)

RECURSIVE LStrip(_)
LStrip(line) ==
    IF line # <<>> /\ Head(line) \in Whitespace THEN LStrip(Tail(line)) ELSE line

RECURSIVE RStrip(_)
RStrip(line) ==
    IF line # <<>> /\ line[Len(line)] \in Whitespace
    THEN RStrip(SubSeq(line, 1, Len(line) - 1))
    ELSE line

\* str.strip()
Strip(line) == RStrip(LStrip(line))

NonBlank(line) == Strip(line) # <<>>

\* [line.strip() for line in f if line.strip()]
ReadLines(content) ==
    LET kept == SelectSeq(content, NonBlank)
    IN [i \in 1..Len(kept) |-> Strip(kept[i])]

\* f"Line {i+1}: Expected '{expected_lines[i]}', Got '{actual_lines[i]}'"
LineMismatch(n, expected, actual) == <<"Line", n, "Expected", expected, "Got", actual>>

\* f"Different number of lines: Expected {len(expected_lines)}, Got {len(actual_lines)}"
CountMismatch(nexpected, nactual) ==
    <<"Different number of lines", "Expected", nexpected, "Got", nactual>>

\* f"Error comparing files: {e}"
CompareError == <<"Error comparing files", "OSError">>

Min(a, b) == IF a <= b THEN a ELSE b

\* The loop over range(min_lines); n is the 1-based line number i+1.
RECURSIVE LineDiffs(_, _, _)
LineDiffs(actual_lines, expected_lines, n) ==
    IF n > Min(Len(actual_lines), Len(expected_lines)) THEN <<>>
    ELSE (IF actual_lines[n] # expected_lines[n]
          THEN << LineMismatch(n, expected_lines[n], actual_lines[n]) >>
          ELSE <<>>)
         \o LineDiffs(actual_lines, expected_lines, n + 1)

\* Mutant: the count entry is put first instead of appended last.
CompareLinesCountFirst(actual_lines, expected_lines) ==
    (IF Len(actual_lines) # Len(expected_lines)
     THEN << CountMismatch(Len(expected_lines), Len(actual_lines)) >>
     ELSE <<>>)
    \o LineDiffs(actual_lines, expected_lines, 1)

\* Lines 171-179: the positional comparison, then the line count.
CompareLines(actual_lines, expected_lines) ==
    LineDiffs(actual_lines, expected_lines, 1)
    \o (IF Len(actual_lines) # Len(expected_lines)
        THEN << CountMismatch(Len(expected_lines), Len(actual_lines)) >>
        ELSE <<>>)

\* compare_results: actual_file and expected_file are files (Absent when the
\* path does not exist); readable is FALSE when open() or the read raises.
compare_results(actual_file, expected_file, readable) ==
    IF ~readable \/ actual_file = Absent \/ expected_file = Absent
    THEN << CompareError >>
    ELSE CompareLines(ReadLines(actual_file[1]), ReadLines(expected_file[1]))

\* ------------------------------------------------- run_sql_script (61-158)

NoOutput == <<"No output file generated">>
TimeoutDiff == <<"Execution timeout">>
ExecutionError(e) == <<"Execution error", e>>

\* Lines 64-65: both paths are named after Path.stem of the script, st.
ResultPath(st) == <<"results", st, "_result.txt">>
ExpectedPath(st) == <<"expected", st, "_expected.txt">>

\* The stem a path was built from.
StemOf(path) == path[2]

TestResult(script_name, success, exit_code, output_file, expected_file, differences) ==
    [script_name |-> script_name, success |-> success, exit_code |-> exit_code,
     output_file |-> output_file, expected_file |-> expected_file,
     differences |-> differences]

\* What one subprocess.run of the client can do: complete with a return code,
\* having written the -o file or not; run into the timeout (killed, the -o file
\* written or not); or raise another exception, exc: before the client runs
\* (it cannot be launched, nothing is written) or after it has run (text=True
\* cannot decode the captured stdout/stderr; the -o file written or not).
\* returncode is read only of a completed call, exc only of an error.
Invocations ==
    [kind : {"completed"}, returncode : {0, 1}, exc : {"none"},
     output : {Absent, File(Baseline), File(Shorter)}]
    \cup [kind : {"timeout"}, returncode : {0}, exc : {"none"},
          output : {Absent, File(Shorter)}]
    \cup [kind : {"error"}, returncode : {0}, exc : {"FileNotFoundError"},
          output : {Absent}]
    \cup [kind : {"error"}, returncode : {0}, exc : {"UnicodeDecodeError"},
          output : {Absent, File(Baseline)}]

\* The results directory's file after the invocation: -o overwrites it.
Written(before, call) == IF call.output # Absent THEN call.output ELSE before

\* Mutant: the comparator is called whether or not the baseline exists.
BaselineDifferencesAlways(result_file, expected_file, readable) ==
    compare_results(result_file, expected_file, readable)

\* Lines 108-114.
BaselineDifferences(result_file, expected_file, readable) ==
    IF expected_file # Absent
    THEN compare_results(result_file, expected_file, readable)
    ELSE <<>>

\* Mutant: the exit status alone decides.
SuccessExitOnly(returncode, differences) == returncode = 0

\* Line 116.
Success(returncode, differences) == returncode = 0 /\ differences = <<>>

\* What the two Path.exists() calls of lines 96 and 110 can do: answer, or
\* raise OSError (a name too long, a directory that cannot be searched), the
\* first or, when that one answered True, the second.
StatOutcomes == {"ok", "result raises", "expected raises"}

\* run_sql_script for the script named s, of stem st: call is what the client
\* did, result_file the file at the result path after it, expected_file the
\* one at the baseline path, stat what the exists() calls do.  The except clauses of lines 135 and 147 guard the
\* whole try body: whatever raises in it gives the 'Execution error' outcome.
run_sql_script(s, st, call, result_file, expected_file, readable, stat) ==
    CASE call.kind = "timeout" ->
           TestResult(s, FALSE, -1, ResultPath(st), ExpectedPath(st), << TimeoutDiff >>)
      [] call.kind = "error" ->
           TestResult(s, FALSE, -1, ResultPath(st), ExpectedPath(st),
                      << ExecutionError(call.exc) >>)
      [] call.kind = "completed" /\ stat = "result raises" ->
           TestResult(s, FALSE, -1, ResultPath(st), ExpectedPath(st),
                      << ExecutionError("OSError") >>)
      [] call.kind = "completed" /\ stat # "result raises" /\ result_file = Absent ->
           TestResult(s, FALSE, call.returncode, ResultPath(st), ExpectedPath(st),
                      << NoOutput >>)
      [] call.kind = "completed" /\ stat = "expected raises" /\ result_file # Absent ->
           TestResult(s, FALSE, -1, ResultPath(st), ExpectedPath(st),
                      << ExecutionError("OSError") >>)
      [] call.kind = "completed" /\ stat = "ok" /\ result_file # Absent ->
           LET differences == BaselineDifferences(result_file, expected_file, readable)
           IN TestResult(s, Success(call.returncode, differences), call.returncode,
                         ResultPath(st), ExpectedPath(st), differences)

\* --------------------------------------------- save_failed_result (186-204)

\* expected_file is the file at result.expected_file (os.path.exists, line 198).
failure_data(result, expected_file) ==
    [script_name |-> result.script_name, success |-> result.success,
     exit_code |-> result.exit_code, differences |-> result.differences,
     output_file |-> result.output_file,
     expected_file |-> IF expected_file # Absent THEN result.expected_file
                       ELSE <<"Not found">>]

\* ------------------------------------------------ generate_report (206-237)

RECURSIVE CountPassed(_)
CountPassed(outcomes) ==
    IF outcomes = <<>> THEN 0
    ELSE (IF Head(outcomes).success THEN 1 ELSE 0) + CountPassed(Tail(outcomes))

\* passed_scripts / total_scripts * 100 as the exact fraction <<numerator,
\* denominator>> (the code computes it in floating point); the integer 0 when
\* there are no outcomes.
SuccessRate(passed, total) == IF total > 0 THEN <<passed * 100, total>> ELSE <<0, 1>>

Detail(result, expected) ==
    [script_name |-> result.script_name, success |-> result.success,
     exit_code |-> result.exit_code,
     has_expected_file |-> expected[StemOf(result.expected_file)] # Absent,
     differences_count |-> Len(result.differences)]

\* Mutant: the failures are counted as passed.
generate_report_swapped(outcomes, expected) ==
    LET total_scripts == Len(outcomes)
        passed_scripts == total_scripts - CountPassed(outcomes)
        failed_scripts == total_scripts - passed_scripts
    IN [total_scripts |-> total_scripts, passed_scripts |-> passed_scripts,
        failed_scripts |-> failed_scripts,
        success_rate |-> SuccessRate(passed_scripts, total_scripts),
        execution_details |-> [i \in 1..Len(outcomes) |-> Detail(outcomes[i], expected)]]

generate_report(outcomes, expected) ==
    LET total_scripts == Len(outcomes)
        passed_scripts == CountPassed(outcomes)
        failed_scripts == total_scripts - passed_scripts
    IN [total_scripts |-> total_scripts, passed_scripts |-> passed_scripts,
        failed_scripts |-> failed_scripts,
        success_rate |-> SuccessRate(passed_scripts, total_scripts),
        execution_details |-> [i \in 1..Len(outcomes) |-> Detail(outcomes[i], expected)]]

\* ------------------------------------------------------------------- state

VARIABLES
    pc,             \* where main() is: "load", "main", "exec", "save", "report",
                    \* "returned" (run_tests has returned), "raised", "exited"
    scripts_dir,    \* scripts/*.sql in the order glob yields them
    stem,           \* Path.stem of each script
    result_files,   \* results/<stem>_result.txt per stem
    expected_files, \* expected/<stem>_expected.txt per stem
    failed_files,   \* failed/<name>_failure.json per script
    report_file,    \* test_report.json
    sql_files,      \* run_tests: the discovered scripts
    idx,            \* run_tests: position of the loop in sql_files
    results,        \* run_tests: the outcomes so far
    returned,       \* what run_tests returned to main (failed_tests)
    error,          \* the exception that left main, "none" if none
    exit_status,    \* <<>> while running, <<status>> once the process has ended
    invocations,    \* per executed script: what the client did, the result
                    \* file that was there before, what the exists() calls did
                    \* and whether the result file was there at line 96
    cmp_pc,          \* compare_results on its own: "call", "compared", "unreadable"
    cmp_actual,      \* its actual_file
    cmp_expected,    \* its expected_file
    cmp_differences  \* what it returned

vars == <<pc, scripts_dir, stem, result_files, expected_files, failed_files, report_file,
          sql_files, idx, results, returned, error, exit_status, invocations,
          cmp_pc, cmp_actual, cmp_expected, cmp_differences>>

cmp_vars == <<cmp_pc, cmp_actual, cmp_expected, cmp_differences>>
fs_vars == <<scripts_dir, stem, expected_files>>

\* Orders glob can yield for a scripts directory holding some of the scripts.
\* The scripts are interchangeable, so an order is taken up to renaming: the
\* listings in ascending and in descending order of the identities.
Listings == { q \in SeqsUpTo(ScriptIds, MaxScripts) :
                \/ \A i, j \in 1..Len(q) : i < j => q[i] < q[j]
                \/ \A i, j \in 1..Len(q) : i < j => q[i] > q[j] }

Range(q) == { q[i] : i \in 1..Len(q) }

\* Every script has a stem of its own (the name without ".sql").
OwnStems == [s \in ScriptIds |-> s]

\* Scripts 1 and 2 are the files ".sql" and ".sql.sql": glob("*.sql") yields
\* both and Path.stem is ".sql" for both (a name that is only a suffix keeps
\* it).  No other two names that end in ".sql" have the same stem.
SharedStem == [s \in ScriptIds |-> IF s = 2 THEN 1 ELSE s]

Init ==
    /\ pc = "load"
    /\ scripts_dir \in Listings
    /\ stem \in {OwnStems} \cup (IF {1, 2} \subseteq Range(scripts_dir)
                                 THEN {SharedStem} ELSE {})
    \* Left over from earlier runs; nothing at a path no script there names.
    /\ result_files \in [ScriptIds -> {Absent, File(SameAfterStrip)}]
    /\ expected_files \in [ScriptIds -> {Absent, File(Baseline)}]
    /\ \A st \in ScriptIds \ { stem[s] : s \in Range(scripts_dir) } :
          result_files[st] = Absent /\ expected_files[st] = Absent
    \* failed/ and the report start empty: what they hold is what this run wrote.
    /\ failed_files = [s \in ScriptIds |-> Absent]
    /\ report_file = Absent
    /\ sql_files = <<>>
    /\ idx = 0
    /\ results = <<>>
    /\ returned = <<>>
    /\ error = "none"
    /\ exit_status = <<>>
    /\ invocations = <<>>
    /\ cmp_pc = "off" /\ cmp_actual = Absent /\ cmp_expected = Absent
    /\ cmp_differences = <<>>

\* ----------------------------------------------------------------- actions

\* The module is loaded.  generate_report is annotated "-> Dict" (line 206) and
\* typing.Dict is never imported (line 14): an interpreter that evaluates
\* annotations at definition time raises NameError in the class body, one that
\* defers them (3.14) goes on to main().
LoadModule ==
    /\ pc = "load"
    /\ \/ /\ pc' = "main"
          /\ UNCHANGED error
       \/ /\ pc' = "raised"
          /\ error' = "NameError"
    /\ UNCHANGED <<fs_vars, result_files, failed_files, report_file, sql_files, idx,
                   results, returned, exit_status, invocations, cmp_vars>>

\* run_tests, lines 242-251: discovery; no scripts, return [].
Discover ==
    /\ pc = "main"
    /\ sql_files' = scripts_dir
    /\ IF scripts_dir = <<>>
       THEN /\ pc' = "returned"
            /\ returned' = <<>>
            /\ UNCHANGED idx
       ELSE /\ pc' = "exec"
            /\ idx' = 1
            /\ UNCHANGED returned
    /\ results' = <<>>
    /\ UNCHANGED <<fs_vars, result_files, failed_files, report_file, error,
                   exit_status, invocations, cmp_vars>>

\* Mutant: the record is saved for the outcomes that passed.
NeedsSavePassed(result) == result.success

\* Line 258.
NeedsSave(result) == ~result.success

\* After one iteration: the next script, or the report once the list is done.
Advance ==
    IF idx < Len(sql_files)
    THEN pc' = "exec" /\ idx' = idx + 1
    ELSE pc' = "report" /\ UNCHANGED idx

\* Lines 254-258: run_sql_script on the next script, results.append.
\* A path whose exists() raises holds no file: nothing is there from before,
\* the client writes nothing to it, and os.path.exists (lines 198, 227) says
\* False of it.  exists() is reached only after a completed call, the second
\* one only when the result file is there.
Exec ==
    /\ pc = "exec"
    /\ \E call \in Invocations, readable \in BOOLEAN, stat \in StatOutcomes :
         LET s == sql_files[idx]
             st == stem[s]
             after == Written(result_files[st], call)
             result == run_sql_script(s, st, call, after, expected_files[st],
                                      readable, stat)
         IN /\ stat # "ok" => call.kind = "completed"
            /\ stat = "result raises" => after = Absent
            /\ stat = "expected raises" => after # Absent /\ expected_files[st] = Absent
            /\ result_files' = [result_files EXCEPT ![st] = after]
            /\ results' = Append(results, result)
            /\ invocations' = Append(invocations,
                                     [call |-> call, before |-> result_files[st],
                                      stat |-> stat, present |-> after # Absent])
            /\ IF NeedsSave(result)
               THEN pc' = "save" /\ UNCHANGED idx
               ELSE Advance
    /\ UNCHANGED <<fs_vars, failed_files, report_file, sql_files, returned, error,
                   exit_status, cmp_vars>>

\* Lines 259-260: save_failed_result writes the record, or open()/json.dump
\* raises and nothing in run_tests or main catches it (a write that fails
\* leaves no complete record: the file stays Absent).
Save ==
    /\ pc = "save"
    /\ LET result == results[Len(results)]
           s == result.script_name
       IN \/ /\ failed_files' = [failed_files EXCEPT
                                   ![s] = File(failure_data(result,
                                     expected_files[StemOf(result.expected_file)]))]
             /\ Advance
             /\ UNCHANGED error
          \/ /\ pc' = "raised"
             /\ error' = "OSError in save_failed_result"
             /\ UNCHANGED <<failed_files, idx>>
    /\ UNCHANGED <<fs_vars, result_files, report_file, sql_files, results, returned,
                   exit_status, invocations, cmp_vars>>

\* Lines 263-274: generate_report builds and writes the report and run_tests
\* returns the outcomes; or the write raises.
Report ==
    /\ pc = "report"
    /\ \/ /\ report_file' = File(generate_report(results, expected_files))
          /\ returned' = results
          /\ pc' = "returned"
          /\ UNCHANGED error
       \/ /\ pc' = "raised"
          /\ error' = "OSError in generate_report"
          /\ UNCHANGED <<report_file, returned>>
    /\ UNCHANGED <<fs_vars, result_files, failed_files, sql_files, idx, results,
                   exit_status, invocations, cmp_vars>>

\* main, lines 297-301: "if failed_tests: sys.exit(1) else: sys.exit(0)".
MainExit ==
    /\ pc = "returned"
    /\ pc' = "exited"
    /\ exit_status' = << IF returned # <<>> THEN 1 ELSE 0 >>
    /\ UNCHANGED <<fs_vars, result_files, failed_files, report_file, sql_files, idx,
                   results, returned, error, invocations, cmp_vars>>

\* An exception nothing catches ends the process with status 1.
Uncaught ==
    /\ pc = "raised"
    /\ pc' = "exited"
    /\ exit_status' = << 1 >>
    /\ UNCHANGED <<fs_vars, result_files, failed_files, report_file, sql_files, idx,
                   results, returned, error, invocations, cmp_vars>>

Next == LoadModule \/ Discover \/ Exec \/ Save \/ Report \/ MainExit \/ Uncaught

Spec == Init /\ [][Next]_vars

\* ------------------------------------------ compare_results on its own

\* The files compare_results is given: missing, or up to MaxLines raw lines.
TextFiles == {Absent} \cup { File(c) : c \in SeqsUpTo(RawLines, MaxLines) }

InitCompare ==
    /\ cmp_pc = "call"
    /\ cmp_actual \in TextFiles
    /\ cmp_expected \in TextFiles
    /\ cmp_differences = <<>>
    /\ pc = "off"
    /\ scripts_dir = <<>>
    /\ stem = OwnStems
    /\ result_files = [s \in ScriptIds |-> Absent]
    /\ expected_files = [s \in ScriptIds |-> Absent]
    /\ failed_files = [s \in ScriptIds |-> Absent]
    /\ report_file = Absent
    /\ sql_files = <<>>
    /\ idx = 0
    /\ results = <<>>
    /\ returned = <<>>
    /\ error = "none"
    /\ exit_status = <<>>
    /\ invocations = <<>>

\* One call of compare_results; cmp_pc tells whether both files were read.
Compare ==
    /\ cmp_pc = "call"
    /\ \E readable \in BOOLEAN :
         /\ cmp_differences' = compare_results(cmp_actual, cmp_expected, readable)
         /\ cmp_pc' = IF readable /\ cmp_actual # Absent /\ cmp_expected # Absent
                      THEN "compared" ELSE "unreadable"
    /\ UNCHANGED <<pc, scripts_dir, stem, result_files, expected_files, failed_files,
                   report_file, sql_files, idx, results, returned, error,
                   exit_status, invocations, cmp_actual, cmp_expected>>

SpecCompare == InitCompare /\ [][Compare]_vars

\* ------------------------------------------ generate_report on its own

\* Outcomes as run_sql_script builds them: passed, failed on the exit status,
\* timed out.
SampleOutcomes ==
    { TestResult(s, TRUE, 0, ResultPath(s), ExpectedPath(s), <<>>) : s \in ScriptIds }
    \cup { TestResult(s, FALSE, 1, ResultPath(s), ExpectedPath(s), <<>>) : s \in ScriptIds }
    \cup { TestResult(s, FALSE, -1, ResultPath(s), ExpectedPath(s), << TimeoutDiff >>) :
             s \in ScriptIds }

\* generate_report is about to be called on any sequence of outcomes, the
\* empty one included.
InitReport ==
    /\ pc = "report"
    /\ results \in SeqsUpTo(SampleOutcomes, MaxOutcomes)
    /\ expected_files \in [ScriptIds -> {Absent, File(Baseline)}]
    /\ scripts_dir = <<>>
    /\ stem = OwnStems
    /\ result_files = [s \in ScriptIds |-> Absent]
    /\ failed_files = [s \in ScriptIds |-> Absent]
    /\ report_file = Absent
    /\ sql_files = <<>>
    /\ idx = 0
    /\ returned = <<>>
    /\ error = "none"
    /\ exit_status = <<>>
    /\ invocations = <<>>
    /\ cmp_pc = "off" /\ cmp_actual = Absent /\ cmp_expected = Absent
    /\ cmp_differences = <<>>

SpecReport == InitReport /\ [][Report]_vars

\* ================================================================== claims

N == Len(sql_files)
Executed == 1..Len(results)
FailedAt(i) == ~results[i].success
\* The baseline of the i-th outcome, at the path the outcome names, is not
\* there (the expected directory does not change during a run).
NoBaseline(i) == expected_files[StemOf(results[i].expected_file)] = Absent

Persisted(i) == failed_files[results[i].script_name] # Absent
\* run_tests returned to main and main exited on its result.
ExitedOnResult == pc = "exited" /\ error = "none"

\* C1: in a run that discovered at least one script, the exit status is 0 if
\* every outcome run_tests returned has success = TRUE and 1 if one has not.
C1_ExitStatusTellsFailures ==
    (ExitedOnResult /\ N >= 1) =>
        exit_status = << IF \A i \in 1..Len(returned) : returned[i].success
                         THEN 0 ELSE 1 >>

\* C2: when discovery yields no script, no report file is written and the
\* process ends with a non-zero exit status, never the all-pass status 0.
C2_NoScriptsIsNotAllPass ==
    (pc \in {"returned", "exited"} /\ error = "none" /\ N = 0) =>
        /\ report_file = Absent
        /\ pc = "exited" => exit_status # << 0 >>

\* C3: every outcome of run_sql_script, on every path, has success = TRUE if
\* and only if its exit_code is 0 and its differences list is empty.
C3_SuccessIffZeroExitAndNoDifferences ==
    \A i \in Executed :
        results[i].success <=>
            (results[i].exit_code = 0 /\ results[i].differences = <<>>)

\* One script passed, another ended with exit status 0 but with differences
\* from its baseline and failed.
C3_Witness ==
    /\ \E i \in Executed : results[i].success
    /\ \E i \in Executed :
          /\ results[i].exit_code = 0
          /\ results[i].differences # <<>>
          /\ ~results[i].success

\* C4 as claimed: a task whose baseline file does not exist has an empty
\* differences list, whatever the invocation did.
C4_NoBaselineNoDifferences ==
    \A i \in Executed :
        NoBaseline(i) => results[i].differences = <<>>

\* C4 as amended: a task whose baseline file does not exist has an empty
\* differences list when the invocation completed, the result file was found
\* at its path (line 96) and neither existence check raised (whatever the exit
\* status, and whichever script wrote the file); otherwise the list is exactly
\* one entry: the timeout; the text of the exception raised in the try block
\* (by subprocess.run, whether or not the client had run and written its file,
\* or by an existence check); else the missing output.
C4_NoBaselineDifferencesByPath ==
    \A i \in Executed :
        LET call == invocations[i].call
            stat == invocations[i].stat
        IN NoBaseline(i) =>
             results[i].differences =
                IF call.kind = "timeout" THEN << TimeoutDiff >>
                ELSE IF call.kind = "error" THEN << <<"Execution error", call.exc>> >>
                ELSE IF stat # "ok" THEN << <<"Execution error", "OSError">> >>
                ELSE IF ~invocations[i].present THEN << NoOutput >>
                ELSE <<>>

\* A task without baseline completed with a non-zero exit status and found a
\* result file, another one without baseline raised after the client wrote its
\* file.
C4_Witness ==
    /\ \E i \in Executed :
          /\ NoBaseline(i)
          /\ invocations[i].call.kind = "completed"
          /\ invocations[i].call.returncode = 1
          /\ invocations[i].stat = "ok"
          /\ invocations[i].present
          /\ results[i].differences = <<>>
    /\ \E i \in Executed :
          /\ NoBaseline(i)
          /\ invocations[i].call.kind = "error"
          /\ invocations[i].call.output # Absent
          /\ results[i].differences = << ExecutionError("UnicodeDecodeError") >>

\* C5: once a run over N >= 1 scripts has ended (other than by a failure to
\* write the final report), run_tests has returned exactly N outcomes, the
\* i-th one of the i-th discovered script: no task failure aborted the loop.
C5_OneOutcomePerScript ==
    (pc = "exited" /\ N >= 1 /\ error # "OSError in generate_report") =>
        /\ error = "none"
        /\ Len(returned) = N
        /\ \A i \in 1..N : returned[i].script_name = sql_files[i]

\* C6: for normalized line sequences A (actual) and E (expected),
\* compare_results returns one line entry per index i <= min(len A, len E)
\* with A[i] # E[i], in increasing order, each with the 1-based index, E[i]
\* and A[i]; then one count entry with len E and len A iff the lengths
\* differ; nothing when A = E.
IsNormalized(lines) ==
    \A i \in 1..Len(lines) :
        /\ lines[i] # <<>>
        /\ lines[i][1] \notin Whitespace
        /\ lines[i][Len(lines[i])] \notin Whitespace

C6_CompareIsPositionalThenCount ==
    (/\ cmp_pc = "compared"
     /\ IsNormalized(cmp_actual[1])
     /\ IsNormalized(cmp_expected[1])) =>
        LET A == cmp_actual[1]
            E == cmp_expected[1]
            D == cmp_differences
            P == { i \in 1..Len(A) : i <= Len(E) /\ A[i] # E[i] }
            k == Cardinality(P)
        IN /\ Len(D) = k + (IF Len(A) # Len(E) THEN 1 ELSE 0)
           /\ \A j \in 1..k :
                 /\ D[j][1] = "Line"
                 /\ D[j][2] \in P
                 /\ D[j] = <<"Line", D[j][2], "Expected", E[D[j][2]], "Got", A[D[j][2]]>>
           /\ \A j \in 1..k : \A h \in 1..k : j < h => D[j][2] < D[h][2]
           /\ Len(A) # Len(E) =>
                 D[Len(D)] = <<"Different number of lines", "Expected", Len(E),
                               "Got", Len(A)>>
           /\ A = E => D = <<>>

\* Normalized files of different lengths that differ at two lines: two line
\* entries and the count entry.
C6_Witness ==
    /\ cmp_pc = "compared"
    /\ IsNormalized(cmp_actual[1])
    /\ IsNormalized(cmp_expected[1])
    /\ Len(cmp_actual[1]) # Len(cmp_expected[1])
    /\ Len(cmp_differences) = 3

\* C7: for N outcomes of which K failed, generate_report gives total_scripts
\* = N, failed_scripts = K, passed_scripts = N - K, success_rate =
\* (N - K) / N * 100 if N > 0 and 0 if N = 0, and one execution_details
\* record per outcome, in order.
C7_ReportCounts ==
    (pc = "returned" /\ report_file # Absent) =>
        LET report == report_file[1]
            total == Len(results)
            K == Cardinality({ i \in 1..total : ~results[i].success })
            rate == report.success_rate
        IN /\ report.total_scripts = total
           /\ report.failed_scripts = K
           /\ report.passed_scripts = total - K
           /\ report.passed_scripts + report.failed_scripts = report.total_scripts
           /\ rate[2] > 0
           /\ total > 0 => rate[1] * total = (total - K) * 100 * rate[2]
           /\ total = 0 => rate[1] = 0
           /\ Len(report.execution_details) = total
           /\ \A i \in 1..total :
                 /\ report.execution_details[i].script_name = results[i].script_name
                 /\ report.execution_details[i].success = results[i].success
                 /\ report.execution_details[i].exit_code = results[i].exit_code
                 /\ report.execution_details[i].differences_count =
                        Len(results[i].differences)

\* A report over three outcomes, one of them failed.
C7_Witness ==
    /\ pc = "returned"
    /\ report_file # Absent
    /\ Len(results) = 3
    /\ Cardinality({ i \in 1..3 : ~results[i].success }) = 1
    /\ report_file[1].passed_scripts = 2

\* C8: an invocation that completes without writing the output file gives a
\* failed outcome with the single missing-output entry and the process's exit
\* status, also when a result file of the task is left from an earlier run.
\* Stated for the invocations after which the existence checks answer.
C8_MissingOutputAlwaysFails ==
    \A i \in Executed :
        (/\ invocations[i].call.kind = "completed"
         /\ invocations[i].call.output = Absent
         /\ invocations[i].stat = "ok") =>
            /\ ~results[i].success
            /\ results[i].differences = << NoOutput >>
            /\ results[i].exit_code = invocations[i].call.returncode

\* C9: a run that discovered scripts ends abnormally only when writing the
\* final report fails; a failure to write a failure record does not abort it:
\* all scripts are executed and the report is written.
C9_OnlyReportFailureAborts ==
    (pc = "exited" /\ N >= 1 /\ error # "OSError in generate_report") =>
        /\ error = "none"
        /\ Len(results) = N
        /\ report_file # Absent

\* C10: a failure record is written for an outcome iff it failed, after that
\* script's execution and before the next script's execution starts, and the
\* report is built only after the last outcome and its record.
C10_RecordRightAfterFailedOutcome ==
    \* records only of failed outcomes, holding the outcome
    /\ \A s \in ScriptIds :
          failed_files[s] # Absent =>
             \E i \in Executed :
                /\ results[i].script_name = s
                /\ FailedAt(i)
                /\ failed_files[s][1].differences = results[i].differences
                /\ failed_files[s][1].exit_code = results[i].exit_code
    \* the record is what is done right after a failed outcome
    /\ pc = "save" =>
          /\ FailedAt(Len(results))
          /\ ~Persisted(Len(results))
          /\ \A i \in 1..(Len(results) - 1) : Persisted(i) <=> FailedAt(i)
    \* the next script starts with every earlier outcome recorded
    /\ pc = "exec" =>
          /\ Len(results) = idx - 1
          /\ \A i \in Executed : Persisted(i) <=> FailedAt(i)
    \* the report comes after the last outcome and its record
    /\ (pc \in {"report", "returned"} \/ report_file # Absent) =>
          /\ Len(results) = N
          /\ \A i \in Executed : Persisted(i) <=> FailedAt(i)

\* A run of two scripts has returned: the first failed and has its record,
\* the second passed and has none, and the report is written.
C10_Witness ==
    /\ pc = "returned"
    /\ Len(results) = 2
    /\ FailedAt(1) /\ Persisted(1)
    /\ ~FailedAt(2) /\ ~Persisted(2)
    /\ report_file # Absent

====
